---- MODULE Spec2Model ----
(***************************************************************************)
(* Model of simple-portfolio-app: the data helpers of src/src/app_data.py  *)
(* (get_hist_adj_close, get_price_return_data, get_stats,                  *)
(* get_eqw_pf_returns, get_opt_pf_returns), max_drawdown of                *)
(* src/src/app_utils.py and the calls app.py makes to them.                *)
(*                                                                         *)
(* Floating-point values are modelled as exact rationals plus the IEEE     *)
(* special values NaN, +inf and -inf; rounding is not modelled.  Dates are *)
(* day numbers.  Positions are 0-based as in the source; TLA+ sequences    *)
(* are 1-based, so position p of a frame is element p + 1.                 *)
(***************************************************************************)
EXTENDS Integers, Sequences, FiniteSets, TLC

VARIABLES
    \* ---- the portfolio run of app.py (specification Spec) ----
    pc,              \* where the run is
    start_date,      \* requested start date (day number)
    end_date,        \* requested end date (day number)
    calendar,        \* the trading calendar the data source answers with
    price_cols,      \* columns of the df_price handed to get_opt_pf_returns
    return_cols,     \* columns of the df_return handed to the portfolio helpers
    df_price,        \* frame returned by get_price_return_data
    df_return,       \* frame returned by get_price_return_data
    returns_eqw_pf,  \* result of get_eqw_pf_returns
    i,               \* loop variable of get_opt_pf_returns
    returns_opt_pf,  \* accumulator of get_opt_pf_returns
    weights_opt_pf,  \* accumulator of get_opt_pf_returns
    calls,           \* history: the windows handed to get_opt_weights, in order
    err,             \* the exception get_opt_pf_returns ended with, or "none"
    result,          \* what get_opt_pf_returns handed back to its caller
    \* ---- get_stats on a return table (specification SpecStats) ----
    st_pc,
    st_price,        \* price table the returns are derived from
    st_from,         \* first row position app.py keeps (index >= start_date)
    st_input,        \* the df_return argument of get_stats
    stats            \* result of get_stats

btVars == <<pc, start_date, end_date, calendar, price_cols, return_cols,
            df_price, df_return, returns_eqw_pf, i, returns_opt_pf, weights_opt_pf,
            calls, err, result>>
stVars == <<st_pc, st_price, st_from, st_input, stats>>
vars == <<btVars, stVars>>

----------------------------------------------------------------------------
(* Program constants *)

\* range(252, ...) and iloc[i - 252:i] in get_opt_pf_returns
Lookback == 252
\* [252:] in get_eqw_pf_returns
EqwSkip == 252
\* sqrt(252) and * 252 in get_stats
TradingDays == 252
\* timedelta(days=365) in get_hist_adj_close
ExtendDays == 365

(* Bounds of the model *)

\* the requested end date is at most MaxSpan days after the start date
MaxSpan == 9
\* rows of the price table behind a get_stats call
MaxStatRows == 4

----------------------------------------------------------------------------
(* Floating-point values: exact rationals n/d (d > 0, lowest terms) and    *)
(* NaN, +inf, -inf.  A "root" value is sign(n) * sqrt(|n| / d): it is how  *)
(* a quotient by a square root (the Sharpe ratio) is kept exact.           *)

Abs(x) == IF x < 0 THEN -x ELSE x

Sgn(x) == IF x < 0 THEN -1 ELSE IF x > 0 THEN 1 ELSE 0

RECURSIVE GCD(_, _)
GCD(a, b) == IF b = 0 THEN a ELSE GCD(b, a % b)

Num(n, d) ==
    LET g == GCD(Abs(n), d)
    IN  [kind |-> "num", n |-> n \div g, d |-> d \div g]

Root(n, d) ==
    LET g == GCD(Abs(n), d)
    IN  [kind |-> "root", n |-> n \div g, d |-> d \div g]

NaN == [kind |-> "nan", n |-> 0, d |-> 1]
PosInf == [kind |-> "inf", n |-> 1, d |-> 1]
NegInf == [kind |-> "inf", n |-> -1, d |-> 1]
Zero == Num(0, 1)
One == Num(1, 1)

IsNaN(x) == x.kind = "nan"
IsFinite(x) == x.kind \in {"num", "root"}

FAdd(a, b) ==
    IF IsNaN(a) \/ IsNaN(b) THEN NaN
    ELSE Num(a.n * b.d + b.n * a.d, a.d * b.d)

FNeg(a) == IF IsNaN(a) THEN NaN ELSE Num(-a.n, a.d)

FSub(a, b) == FAdd(a, FNeg(b))

FMul(a, b) ==
    IF IsNaN(a) \/ IsNaN(b) THEN NaN
    ELSE Num(a.n * b.n, a.d * b.d)

\* IEEE division: x / 0 is +inf or -inf, 0 / 0 is NaN; nothing is raised
FDiv(a, b) ==
    IF IsNaN(a) \/ IsNaN(b) THEN NaN
    ELSE IF b.n = 0
         THEN (IF a.n > 0 THEN PosInf ELSE IF a.n < 0 THEN NegInf ELSE NaN)
         ELSE Num(a.n * b.d * Sgn(b.n), a.d * Abs(b.n))

\* a > b; every comparison with NaN is false
FGt(a, b) == ~IsNaN(a) /\ ~IsNaN(b) /\ a.n * b.d > b.n * a.d

----------------------------------------------------------------------------
(* pandas Series operations, a Series being a sequence of values *)

\* Series.pct_change(): first element missing, then p[t] / p[t-1] - 1
PctChange(s) ==
    [k \in 1..Len(s) |->
        IF k = 1 THEN NaN ELSE FSub(FDiv(Num(s[k], 1), Num(s[k - 1], 1)), One)]

\* Series.cumprod() (skipna): a NaN stays NaN and is left out of the product
RECURSIVE CumProdFrom(_, _, _)
CumProdFrom(s, k, acc) ==
    IF k > Len(s) THEN <<>>
    ELSE IF IsNaN(s[k]) THEN <<NaN>> \o CumProdFrom(s, k + 1, acc)
    ELSE <<FMul(acc, s[k])>> \o CumProdFrom(s, k + 1, FMul(acc, s[k]))

CumProd(s) == CumProdFrom(s, 1, One)

\* Series.cummax() (skipna)
RECURSIVE CumMaxFrom(_, _, _)
CumMaxFrom(s, k, acc) ==
    IF k > Len(s) THEN <<>>
    ELSE IF IsNaN(s[k]) THEN <<NaN>> \o CumMaxFrom(s, k + 1, acc)
    ELSE LET m == IF IsNaN(acc) \/ FGt(s[k], acc) THEN s[k] ELSE acc
         IN  <<m>> \o CumMaxFrom(s, k + 1, m)

CumMax(s) == CumMaxFrom(s, 1, NaN)

\* Python's builtin max over the values: keeps the first, replaces on ">"
RECURSIVE PyMaxFrom(_, _, _)
PyMaxFrom(s, k, best) ==
    IF k > Len(s) THEN best
    ELSE PyMaxFrom(s, k + 1, IF FGt(s[k], best) THEN s[k] ELSE best)

PyMax(s) == PyMaxFrom(s, 2, s[1])

\* Series[1:]
DropFirst(s) == IF Len(s) = 0 THEN s ELSE Tail(s)

\* max_drawdown(return_ts), app_utils.py
max_drawdown(return_ts) ==
    LET cum_return_ts == DropFirst(CumProd([k \in 1..Len(return_ts) |->
                                              FAdd(One, return_ts[k])]))
        high_watermarks == CumMax(cum_return_ts)
        drawdowns == [k \in 1..Len(cum_return_ts) |->
                        FSub(One, FDiv(cum_return_ts[k], high_watermarks[k]))]
    IN  FNeg(PyMax(drawdowns))

\* the non-missing values of a Series, in order
Defined(s) == SelectSeq(s, LAMBDA x : ~IsNaN(x))

RECURSIVE SeqSum(_)
SeqSum(s) == IF Len(s) = 0 THEN Zero ELSE FAdd(s[1], SeqSum(Tail(s)))

\* 'count', 'sum', 'mean' (all skipna)
Count(s) == Len(Defined(s))
Sum(s) == SeqSum(Defined(s))
Mean(s) == IF Count(s) = 0 THEN NaN ELSE FDiv(Sum(s), Num(Count(s), 1))

\* 'std' squared (ddof = 1, skipna): NaN below two observations
Var(s) ==
    IF Count(s) < 2 THEN NaN
    ELSE LET m == Mean(s)
             d == Defined(s)
             sq == [k \in 1..Len(d) |-> FMul(FSub(d[k], m), FSub(d[k], m))]
         IN  FDiv(SeqSum(sq), Num(Count(s) - 1, 1))

\* np.sqrt(x) of a non-negative rational
Sqrt(x) == IF IsNaN(x) THEN NaN ELSE Root(x.n, x.d)

\* product of two square roots
RootMul(a, b) ==
    IF IsNaN(a) \/ IsNaN(b) THEN NaN ELSE Root(a.n * b.n, a.d * b.d)

\* a rational divided by a square root, IEEE division
DivByRoot(a, r) ==
    IF IsNaN(a) \/ IsNaN(r) THEN NaN
    ELSE IF r.n = 0
         THEN (IF a.n > 0 THEN PosInf ELSE IF a.n < 0 THEN NegInf ELSE NaN)
         ELSE Root(Sgn(a.n) * a.n * a.n * r.d, a.d * a.d * r.n)

----------------------------------------------------------------------------
(* Frames: [index: sequence of dates, columns: sequence of tickers,        *)
(* data: ticker -> Series].                                                *)

EmptyFrame == [index |-> <<>>, columns |-> <<>>, data |-> <<>>]

\* the caller of get_opt_pf_returns has received nothing (yet)
NoResult == [kind |-> "none", returns |-> <<>>, weights |-> <<>>]

ColSet(df) == {df.columns[k] : k \in 1..Len(df.columns)}

NRows(df) == Len(df.index)

\* Python slice bounds lo:hi over n rows (lo, hi >= 0), as 1-based lo+1 .. hi
SliceSeq(s, lo, hi) ==
    LET h == IF hi > Len(s) THEN Len(s) ELSE hi
    IN  IF lo >= h THEN <<>> ELSE SubSeq(s, lo + 1, h)

\* df.iloc[lo:hi]
ILocRows(df, lo, hi) ==
    [index |-> SliceSeq(df.index, lo, hi),
     columns |-> df.columns,
     data |-> [t \in ColSet(df) |-> SliceSeq(df.data[t], lo, hi)]]

\* df[cols]
SelectCols(df, cols) ==
    [index |-> df.index,
     columns |-> cols,
     data |-> [t \in {cols[k] : k \in 1..Len(cols)} |-> df.data[t]]]

\* df_price.pct_change(), get_price_return_data
pct_change(df) ==
    [index |-> df.index,
     columns |-> df.columns,
     data |-> [t \in ColSet(df) |-> PctChange(df.data[t])]]

----------------------------------------------------------------------------
(* get_stats, app_data.py *)

\* a get_stats that guards the division: zero volatility reported as Sharpe 0
SharpeRatioClamped(avg, ann_vol) ==
    IF ~IsNaN(ann_vol) /\ ann_vol.n = 0 THEN Root(0, 1)
    ELSE DivByRoot(FMul(avg, Num(TradingDays, 1)), ann_vol)

\* the Sharpe Ratio column: Avg Dly Return * 252 / Ann Volatility
SharpeRatio(avg, ann_vol) == DivByRoot(FMul(avg, Num(TradingDays, 1)), ann_vol)

\* the Ann Volatility column: Stdev * np.sqrt(252)
AnnVolatility(stdev) == RootMul(stdev, Sqrt(Num(TradingDays, 1)))

\* one row of the transposed agg result, with the derived columns
StatsRow(name, s) ==
    LET stdev == Sqrt(Var(s))
        ann == AnnVolatility(stdev)
    IN  [index |-> name,
         NDays |-> Count(s),
         CumReturn |-> Sum(s),
         AvgDlyReturn |-> Mean(s),
         AnnVolatility |-> ann,
         SharpeRatio |-> SharpeRatio(Mean(s), ann),
         MaxDrawdown |-> max_drawdown(s)]

\* get_stats(df_return): one row per column, in column order
get_stats(df) ==
    [c \in 1..Len(df.columns) |-> StatsRow(df.columns[c], df.data[df.columns[c]])]

----------------------------------------------------------------------------
(* Specification SpecStats: app.py derives returns from a price table,     *)
(* keeps the rows from the start date on and calls get_stats on them.      *)

StatPrices == {1, 2, 4}

\* price series of n rows the second ticker is drawn from
PatternSeries(n) ==
    { [k \in 1..n |-> 2],
      [k \in 1..n |-> IF k % 2 = 1 THEN 1 ELSE 2],
      [k \in 1..n |-> IF k <= 2 THEN k ELSE 4],
      [k \in 1..n |-> IF k = 1 THEN 4 ELSE IF k = 2 THEN 2 ELSE 1] }

StatTables ==
    UNION { { [index |-> [k \in 1..n |-> k],
               columns |-> cols,
               data |-> [t \in {"A", "B"} |-> IF t = "A" THEN a ELSE b]] :
              a \in [1..n -> StatPrices], b \in PatternSeries(n),
              cols \in {<<"A", "B">>, <<"B", "A">>} } :
            n \in 2..MaxStatRows }

BtIdle ==
    /\ pc = "idle" /\ start_date = 0 /\ end_date = 0 /\ calendar = 0
    /\ price_cols = <<>> /\ return_cols = <<>>
    /\ df_price = EmptyFrame /\ df_return = EmptyFrame
    /\ returns_eqw_pf = <<>> /\ i = 0
    /\ returns_opt_pf = <<>> /\ weights_opt_pf = <<>>
    /\ calls = <<>> /\ err = "none" /\ result = NoResult

StIdle ==
    /\ st_pc = "idle" /\ st_price = EmptyFrame /\ st_from = 0
    /\ st_input = EmptyFrame /\ stats = <<>>

InitStats ==
    /\ BtIdle
    /\ st_pc = "start"
    /\ st_price \in StatTables
    /\ st_from \in 0..(MaxStatRows - 2)
    /\ st_from <= NRows(st_price) - 2
    /\ st_input = EmptyFrame
    /\ stats = <<>>

\* app.py: df_return.loc[df_return.index >= start_date]
KeepFrom(df, from) == ILocRows(df, from, NRows(df))

\* get_price_return_data then the slice of app.py
StatsLoad ==
    /\ st_pc = "start"
    /\ st_input' = KeepFrom(pct_change(st_price), st_from)
    /\ st_pc' = "loaded"
    /\ UNCHANGED <<st_price, st_from, stats, btVars>>

\* tkr_stats = get_stats(...)
StatsCall ==
    /\ st_pc = "loaded"
    /\ stats' = get_stats(st_input)
    /\ st_pc' = "done"
    /\ UNCHANGED <<st_price, st_from, st_input, btVars>>

NextStats == StatsLoad \/ StatsCall

SpecStats == InitStats /\ [][NextStats]_vars

----------------------------------------------------------------------------
(* The external data source (yfin.download): one row per trading day d     *)
(* with start <= d < end.  A calendar is the number of days between two    *)
(* market holidays; days d with d % 7 in {5, 6} are week-ends.             *)

Tickers == <<"A", "B">>

HolidayGaps == {35, 42, 49}

IsTradingDay(cal, d) == d % 7 < 5 /\ d % cal # 0

\* the trading days d with from <= d < to, in increasing order
RECURSIVE TradingDaysIn(_, _, _)
TradingDaysIn(cal, from, to) ==
    IF from >= to THEN <<>>
    ELSE IF to = from + 1
         THEN (IF IsTradingDay(cal, from) THEN <<from>> ELSE <<>>)
         ELSE LET mid == (from + to) \div 2
              IN  TradingDaysIn(cal, from, mid) \o TradingDaysIn(cal, mid, to)

\* adjusted close of a ticker on a day: positive, varying by day and ticker
AdjClose(t, d) == IF t = "A" THEN 2 + (d % 3) ELSE 1 + ((d \div 2) % 4)

\* get_hist_adj_close(tickers, start_date, end_date)
get_hist_adj_close(cal, tickers, start, end) ==
    LET start_date_rev == start - ExtendDays
        idx == TradingDaysIn(cal, start_date_rev, end)
    IN  [index |-> idx,
         columns |-> tickers,
         data |-> [t \in {tickers[k] : k \in 1..Len(tickers)} |->
                      [k \in 1..Len(idx) |-> AdjClose(t, idx[k])]]]

----------------------------------------------------------------------------
(* get_eqw_pf_returns, app_data.py *)

\* df.iloc[p] as a mapping from column to value
RowAt(df, p) == [t \in ColSet(df) |-> df.data[t][p + 1]]

\* the values of a row in column order
RowValues(df, p) == [k \in 1..Len(df.columns) |-> df.data[df.columns[k]][p + 1]]

\* df.mean(axis=1): per date, the mean of the non-missing values
RowMeans(df) ==
    [k \in 1..NRows(df) |-> [Date |-> df.index[k], Return |-> Mean(RowValues(df, k - 1))]]

\* a variant that keeps one row more: [251:]
get_eqw_pf_returns_early(df) == SliceSeq(RowMeans(df), EqwSkip - 1, NRows(df))

get_eqw_pf_returns(df) == SliceSeq(RowMeans(df), EqwSkip, NRows(df))

----------------------------------------------------------------------------
(* get_opt_weights and get_opt_pf_returns, app_data.py *)

\* The optimizer is PyPortfolioOpt, outside the repository: for a window it
\* either raises or returns one weight per ticker of the window, in column
\* order.  Two outcomes stand for its answers: all weight on the first
\* ticker, and equal weights.
WeightChoices(prices) ==
    LET n == Len(prices.columns)
    IN  { [k \in 1..n |-> [Ticker |-> prices.columns[k],
                           Weight |-> IF k = 1 THEN One ELSE Zero]],
          [k \in 1..n |-> [Ticker |-> prices.columns[k], Weight |-> Num(1, n)]] }

\* a window that reaches one row further: iloc[i - 251:i + 1]
WindowAhead(df, j) == ILocRows(df, j - Lookback + 1, j + 1)

\* prices = df_price.iloc[i - 252:i]
Window(df, j) == ILocRows(df, j - Lookback, j)

\* wt.join(rt, how='inner'): only the tickers both sides have
InnerJoin(wt, rt) ==
    LET both == SelectSeq(wt, LAMBDA w : w.Ticker \in DOMAIN rt)
    IN  [k \in 1..Len(both) |->
            [Ticker |-> both[k].Ticker, Weight |-> both[k].Weight,
             Return |-> rt[both[k].Ticker]]]

\* wt.join(rt, how='left'): every ticker of wt, Return missing when rt lacks it
LeftJoin(wt, rt) ==
    [k \in 1..Len(wt) |->
        [Ticker |-> wt[k].Ticker, Weight |-> wt[k].Weight,
         Return |-> IF wt[k].Ticker \in DOMAIN rt THEN rt[wt[k].Ticker] ELSE NaN]]

\* Python's builtin sum: 0 + x1 + x2 + ...
RECURSIVE PySumFrom(_, _, _)
PySumFrom(s, k, acc) ==
    IF k > Len(s) THEN acc ELSE PySumFrom(s, k + 1, FAdd(acc, s[k]))

PySum(s) == PySumFrom(s, 1, Zero)

\* sum(wt_rt['Weight'] * wt_rt['Return'])
PfReturn(wt, rt) ==
    LET wt_rt == LeftJoin(wt, rt)
    IN  PySum([k \in 1..Len(wt_rt) |-> FMul(wt_rt[k].Weight, wt_rt[k].Return)])

\* a variant that dates the weights at the date they are applied to
WeightDateApplied(prices, df, j) == df.index[j + 1]

\* wt['Date'] = prices.index[-1]
WeightDate(prices, df, j) == prices.index[Len(prices.index)]

ArgPrice == SelectCols(df_price, price_cols)
ArgReturn == SelectCols(df_return, return_cols)

\* what the history keeps of a window handed to get_opt_weights
Digest(j, prices) ==
    [i |-> j, rows |-> NRows(prices),
     first |-> IF NRows(prices) = 0 THEN -1 ELSE prices.index[1],
     last |-> IF NRows(prices) = 0 THEN -1 ELSE prices.index[NRows(prices)]]

----------------------------------------------------------------------------
(* Specification Spec: the portfolio part of app.py *)

\* requested end dates: none or one day of data, and the days around the
\* requested start date
EndDates(start) ==
    {start - ExtendDays, start - ExtendDays + 1} \cup (start - 1)..(start + MaxSpan)

ColumnChoices ==
    { <<Tickers, Tickers>>,          \* app.py: both frames hold every ticker
      <<<<"A">>, Tickers>>,          \* a ticker only in the returns
      <<Tickers, <<"A">>>> }         \* a ticker only in the prices (weights)

Init ==
    /\ StIdle
    /\ pc = "request"
    /\ start_date \in ExtendDays..(ExtendDays + 6)
    /\ end_date \in EndDates(start_date)
    /\ calendar \in HolidayGaps
    /\ \E c \in ColumnChoices : price_cols = c[1] /\ return_cols = c[2]
    /\ df_price = EmptyFrame /\ df_return = EmptyFrame
    /\ returns_eqw_pf = <<>> /\ i = 0
    /\ returns_opt_pf = <<>> /\ weights_opt_pf = <<>>
    /\ calls = <<>> /\ err = "none" /\ result = NoResult

\* df_price, df_return = get_price_return_data(tickers, start_date, end_date)
Load ==
    /\ pc = "request"
    /\ LET px == get_hist_adj_close(calendar, Tickers, start_date, end_date)
       IN  /\ df_price' = px
           /\ df_return' = pct_change(px)
    /\ pc' = "loaded"
    /\ UNCHANGED <<start_date, end_date, calendar, price_cols, return_cols,
                   returns_eqw_pf, i, returns_opt_pf, weights_opt_pf, calls,
                   err, result, stVars>>

\* returns_eqw_pf = get_eqw_pf_returns(df_return)
Eqw ==
    /\ pc = "loaded"
    /\ returns_eqw_pf' = get_eqw_pf_returns(ArgReturn)
    /\ pc' = "eqw_done"
    /\ UNCHANGED <<start_date, end_date, calendar, price_cols, return_cols,
                   df_price, df_return, i, returns_opt_pf, weights_opt_pf,
                   calls, err, result, stVars>>

\* get_opt_pf_returns is entered: empty accumulators, range(252, len(df_price))
OptEnter ==
    /\ pc = "eqw_done"
    /\ returns_opt_pf' = <<>>
    /\ weights_opt_pf' = <<>>
    /\ i' = Lookback
    /\ pc' = "loop"
    /\ UNCHANGED <<start_date, end_date, calendar, price_cols, return_cols,
                   df_price, df_return, returns_eqw_pf, calls, err, result,
                   stVars>>

\* a loop that drops the failing date and goes on to the next window
SkipAndContinue(prices) ==
    /\ i' = i + 1
    /\ calls' = Append(calls, Digest(i, prices))
    /\ UNCHANGED <<pc, err, returns_opt_pf, weights_opt_pf, result>>

\* get_opt_weights raises: nothing catches it, the call ends with the error
Propagate(prices) ==
    /\ pc' = "raised"
    /\ err' = "OptimizationError"
    /\ calls' = Append(calls, Digest(i, prices))
    /\ UNCHANGED <<i, returns_opt_pf, weights_opt_pf, result>>

\* one iteration of the loop whose optimizer call succeeds
OptStep ==
    /\ pc = "loop"
    /\ i < NRows(ArgPrice)
    /\ LET prices == Window(ArgPrice, i)
       IN  \E wt \in WeightChoices(prices) :
             LET rt == RowAt(ArgReturn, i)
                 pf_return == [Date |-> ArgReturn.index[i + 1],
                               Return |-> PfReturn(wt, rt)]
             IN  /\ returns_opt_pf' = Append(returns_opt_pf, pf_return)
                 /\ weights_opt_pf' =
                       Append(weights_opt_pf,
                              [Date |-> WeightDate(prices, ArgPrice, i), Weights |-> wt])
                 /\ calls' = Append(calls, Digest(i, prices))
    /\ i' = i + 1
    /\ UNCHANGED <<pc, start_date, end_date, calendar, price_cols, return_cols,
                   df_price, df_return, returns_eqw_pf, err, result, stVars>>

\* one iteration of the loop whose optimizer call raises
OptFail ==
    /\ pc = "loop"
    /\ i < NRows(ArgPrice)
    /\ Propagate(Window(ArgPrice, i))
    /\ UNCHANGED <<start_date, end_date, calendar, price_cols, return_cols,
                   df_price, df_return, returns_eqw_pf, stVars>>

\* return returns_opt_pf['Return'], weights_opt_pf: a frame that was never
\* concatenated to has no 'Return' column and the lookup raises KeyError
OptReturn ==
    /\ pc = "loop"
    /\ i >= NRows(ArgPrice)
    /\ IF Len(returns_opt_pf) = 0
       THEN /\ pc' = "raised"
            /\ err' = "KeyError"
            /\ result' = result
       ELSE /\ pc' = "returned"
            /\ err' = err
            /\ result' = [kind |-> "value", returns |-> returns_opt_pf,
                         weights |-> weights_opt_pf]
    /\ UNCHANGED <<start_date, end_date, calendar, price_cols, return_cols,
                   df_price, df_return, returns_eqw_pf, i, returns_opt_pf,
                   weights_opt_pf, calls, stVars>>

Next == Load \/ Eqw \/ OptEnter \/ OptStep \/ OptFail \/ OptReturn

Spec == Init /\ [][Next]_vars

----------------------------------------------------------------------------
(* Claims about the portfolio run (specification Spec) *)

\* date at 0-based position p of the price table
DateAt(p) == df_price.index[p + 1]

Ended == pc \in {"returned", "raised"}

\* C1: every window handed to the optimizer at iteration i (i = 252, 253, ...
\* in order) is exactly the 252 rows at positions i-252 .. i-1 of the price
\* table, all dated strictly before the date of position i.
C1_NoLookAhead ==
    \A k \in 1..Len(calls) :
        LET c == calls[k]
        IN  /\ c.i = Lookback + k - 1
            /\ c.i < NRows(df_price)
            /\ c.rows = Lookback
            /\ c.first = DateAt(c.i - Lookback)
            /\ c.last = DateAt(c.i - 1)
            /\ c.last < DateAt(c.i)

\* a run that handed at least two successive windows to the optimizer
C1_Witness == pc = "returned" /\ Len(calls) >= 2

StrictlyIncreasing(rows) ==
    \A k \in 1..(Len(rows) - 1) : rows[k].Date < rows[k + 1].Date

\* C2: with N >= 253 price rows (and no optimizer failure) the call returns
\* N-252 returns dated at positions 252 .. N-1 and N-252 weight vectors dated
\* at positions 251 .. N-2, both in strictly increasing date order.
C2_OutputIndex ==
    (Ended /\ NRows(df_price) > Lookback /\ err # "OptimizationError") =>
        /\ pc = "returned"
        /\ Len(result.returns) = NRows(df_price) - Lookback
        /\ Len(result.weights) = NRows(df_price) - Lookback
        /\ \A k \in 1..Len(result.returns) :
              /\ result.returns[k].Date = DateAt(Lookback + k - 1)
              /\ result.weights[k].Date = DateAt(Lookback + k - 2)
        /\ StrictlyIncreasing(result.returns)
        /\ StrictlyIncreasing(result.weights)
        /\ NRows(df_price) = Lookback + 1 =>
              result.returns = <<returns_opt_pf[1]>> /\
              returns_opt_pf[1].Date = DateAt(Lookback)

\* a completed run over at least 254 price rows
C2_Witness == pc = "returned" /\ Len(result.returns) >= 2

\* C3: with fewer than 253 price rows get_opt_pf_returns completes without
\* raising and returns an empty return series and an empty weight history.
C3_ShortTableReturnsEmpty ==
    (Ended /\ NRows(df_price) <= Lookback) =>
        /\ pc = "returned"
        /\ err = "none"
        /\ result = [kind |-> "value", returns |-> <<>>, weights |-> <<>>]

RECURSIVE SumOver(_, _)
SumOver(S, f) ==
    IF S = {} THEN Zero
    ELSE LET x == CHOOSE y \in S : TRUE
         IN  FAdd(f[x], SumOver(S \ {x}, f))

WeightOf(wt) ==
    [t \in {wt[k].Ticker : k \in 1..Len(wt)} |->
        (CHOOSE w \in {wt[k] : k \in 1..Len(wt)} : w.Ticker = t).Weight]

\* the return row the k-th weight vector is applied to
AppliedRow(k) == RowAt(ArgReturn, Lookback + k - 1)

\* C4 as claimed: the realized return is the sum of weight * return over the
\* tickers both sides have (an inner join); a ticker on one side only
\* contributes zero and never makes the result missing.
C4_InnerJoinNeverMissing ==
    \A k \in 1..Len(returns_opt_pf) :
        LET w == WeightOf(weights_opt_pf[k].Weights)
            r == AppliedRow(k)
            both == DOMAIN w \cap DOMAIN r
        IN  returns_opt_pf[k].Return =
                SumOver(both, [t \in both |-> FMul(w[t], r[t])])

\* C4 as amended: the join is a left join from the weight vector.  The
\* realized return is the sum of weight * return over the weight vector's
\* tickers; a ticker only in the returns contributes zero, and a ticker only
\* in the weight vector has a missing return, which makes the result missing.
C4_LeftJoinSum ==
    \A k \in 1..Len(returns_opt_pf) :
        LET w == WeightOf(weights_opt_pf[k].Weights)
            r == AppliedRow(k)
        IN  IF DOMAIN w \subseteq DOMAIN r
            THEN returns_opt_pf[k].Return =
                    SumOver(DOMAIN w, [t \in DOMAIN w |-> FMul(w[t], r[t])])
            ELSE IsNaN(returns_opt_pf[k].Return)

\* a weight vector over A and B applied to returns that hold only A
C4_Witness ==
    /\ Len(returns_opt_pf) >= 1
    /\ price_cols = Tickers
    /\ return_cols = <<"A">>
    /\ IsNaN(returns_opt_pf[1].Return)

\* C5: every window handed to the optimizer either produced its row or is
\* the last one, and then the call has ended with the optimizer's error at
\* that window: nothing runs afterwards and the caller has received nothing.
C5_FailFast ==
    /\ Len(weights_opt_pf) = Len(returns_opt_pf)
    /\ \/ Len(calls) = Len(returns_opt_pf) /\ err # "OptimizationError"
       \/ /\ Len(calls) = Len(returns_opt_pf) + 1
          /\ pc = "raised"
          /\ err = "OptimizationError"
          /\ calls[Len(calls)].i = i
          /\ result = NoResult
          /\ ~ENABLED Next

\* the optimizer failed at the third window, after two rows were produced
C5_Witness ==
    err = "OptimizationError" /\ Len(returns_opt_pf) = 2 /\ Len(calls) = 3

\* sum of a row's values, missing values not skipped
RowTotal(df, p) == SumOver(ColSet(df), RowAt(df, p))

\* C7: get_eqw_pf_returns returns exactly the rows at positions >= 252, each
\* the sum of all asset returns of that date divided by the number of
\* assets, and its dates are those of the optimized return series.
C7_EqualWeightMean ==
    pc \notin {"request", "loaded"} =>
        /\ Len(returns_eqw_pf) =
              (IF NRows(df_return) > EqwSkip THEN NRows(df_return) - EqwSkip ELSE 0)
        /\ \A k \in 1..Len(returns_eqw_pf) :
              /\ returns_eqw_pf[k].Date = df_return.index[EqwSkip + k]
              /\ returns_eqw_pf[k].Return =
                    FDiv(RowTotal(ArgReturn, EqwSkip + k - 1),
                         Num(Len(return_cols), 1))
        /\ pc = "returned" =>
              [k \in 1..Len(returns_eqw_pf) |-> returns_eqw_pf[k].Date]
                  = [k \in 1..Len(result.returns) |-> result.returns[k].Date]

\* a completed run with at least two equal-weight rows over two assets
C7_Witness ==
    pc = "returned" /\ Len(returns_eqw_pf) >= 2 /\ Len(return_cols) = 2

\* C9: a backtest on fewer than 253 price rows is rejected with an
\* InsufficientDataError-style diagnostic before the loop is entered.
C9_ShortTableRejectedWithDiagnostic ==
    (Ended /\ NRows(df_price) <= Lookback) =>
        pc = "raised" /\ err = "InsufficientDataError"

RowsBefore(day) == Cardinality({k \in 1..NRows(df_price) : df_price.index[k] < day})

\* C10: whenever the table holds a row dated on or after the requested start
\* date, at least 252 rows precede the first such row, so the first
\* optimized return is dated no later than it.
C10_FullLookbackBeforeStart ==
    (pc # "request" /\ RowsBefore(start_date) < NRows(df_price)) =>
        /\ RowsBefore(start_date) >= Lookback
        /\ pc = "returned" =>
              result.returns[1].Date <= DateAt(RowsBefore(start_date))

----------------------------------------------------------------------------
(* Claims about max_drawdown and get_stats (specification SpecStats) *)

\* growth curve over every defined return: g[t] = product of (1 + r[k]), k <= t
RECURSIVE RefGrowth(_, _)
RefGrowth(d, t) ==
    IF t = 0 THEN One ELSE FMul(RefGrowth(d, t - 1), FAdd(One, d[t]))

\* running peak max(g[1..t])
RefPeak(d, t) ==
    CHOOSE g \in {RefGrowth(d, k) : k \in 1..t} :
        \A k \in 1..t : ~FGt(RefGrowth(d, k), g)

\* -max over t of (1 - g[t] / max(g[1..t]))
RefMaxDrawdown(d) ==
    LET dd == {FSub(One, FDiv(RefGrowth(d, t), RefPeak(d, t))) : t \in 1..Len(d)}
    IN  FNeg(CHOOSE x \in dd : \A y \in dd : ~FGt(y, x))

StatColumn(c) == st_input.data[st_input.columns[c]]

\* C6: for every return series with at least 2 defined returns, max_drawdown
\* is -max_t (1 - g[t] / max(g[0..t])) with g taken over every defined return
\* of the series, so a decline from the peak reached at the first defined
\* return counts like any other.
C6_DrawdownOverAllReturns ==
    st_pc = "done" =>
        \A c \in 1..Len(stats) :
            Count(StatColumn(c)) >= 2 =>
                stats[c].MaxDrawdown = RefMaxDrawdown(Defined(StatColumn(c)))

\* all defined values of the series are the same, and there are at least two
ConstantSeries(s) ==
    /\ Count(s) >= 2
    /\ \A j, k \in 1..Count(s) : Defined(s)[j] = Defined(s)[k]

ZeroVol(row) == row.AnnVolatility.kind = "root" /\ row.AnnVolatility.n = 0

\* C8: get_stats returns one row per input column in input column order; a
\* column of zero volatility (a constant-valued series) has a non-finite
\* Sharpe Ratio (+inf, -inf or NaN by the sign of the mean), never a finite
\* number, and a column of non-zero volatility in the same table keeps a
\* finite Sharpe Ratio of the sign of its mean.
C8_SharpeNonFinite ==
    st_pc = "done" =>
        /\ Len(stats) = Len(st_input.columns)
        /\ \A c \in 1..Len(stats) :
            LET row == stats[c]
                s == StatColumn(c)
            IN  /\ row.index = st_input.columns[c]
                /\ ConstantSeries(s) <=> ZeroVol(row)
                /\ ZeroVol(row) =>
                      /\ ~IsFinite(row.SharpeRatio)
                      /\ row.SharpeRatio =
                            (IF Mean(s).n > 0 THEN PosInf
                             ELSE IF Mean(s).n < 0 THEN NegInf ELSE NaN)
                /\ (row.AnnVolatility.kind = "root" /\ row.AnnVolatility.n > 0) =>
                      /\ row.SharpeRatio.kind = "root"
                      /\ Sgn(row.SharpeRatio.n) = Sgn(Mean(s).n)

\* a table whose first column is constant at a positive return (Sharpe +inf)
\* next to a column that varies
C8_Witness ==
    /\ st_pc = "done"
    /\ Len(stats) = 2
    /\ ZeroVol(stats[1])
    /\ stats[1].SharpeRatio = PosInf
    /\ stats[2].AnnVolatility.kind = "root"
    /\ stats[2].AnnVolatility.n > 0
    /\ stats[2].index = "A"

\* with the leading undefined return of pct_change kept in the series, the
\* slice [1:] drops only that undefined value and every return is counted
DrawdownWithLeadingNaN ==
    (st_pc = "done" /\ st_from = 0) =>
        \A c \in 1..Len(stats) :
            Count(StatColumn(c)) >= 2 =>
                stats[c].MaxDrawdown = RefMaxDrawdown(Defined(StatColumn(c)))

====
